---- MODULE Spec2Model ----
(***************************************************************************)
(* Model of src/index.js: the sentence splitter (splitBySentences) and the *)
(* tree walker (processContainer and its handlers) that turn a DOM subtree *)
(* into an ordered sequence of <p> sentence blocks and preserved clones.   *)
(*                                                                         *)
(* Strings are sequences of one-character strings.  JavaScript indices are *)
(* 0-based; the model keeps them 0-based and reads text[i + 1].            *)
(***************************************************************************)
EXTENDS Integers, Sequences, FiniteSets, TLC

VARIABLES
  pc,           \* position of the program: which loop is running, or returned
  text,         \* splitBySentences: the argument
  i,            \* splitBySentences: the scan index of the for loop
  current,      \* splitBySentences: the accumulator
  sentences,    \* splitBySentences: the list being built / returned
  container,    \* the DOM tree handed to processContainer (its childNodes)
  stack,        \* processContainer: one frame per active invocation
  runs,         \* the block sequences returned by completed top-level calls
  lineCall,     \* processLineForSentences: one call, its arguments and result
  elements,     \* playTextualContent: the argument
  textElements, \* playTextualContent: the elements that passed the filter
  elementIndex, \* playTextualContent: i of the for loop
  canvas,       \* the canvas div: its child nodes and its opacity
  timers,       \* the timeouts that are set and have not fired
  timeouts,     \* playTextualContent: the timeout ids collected for cleanup
  shown         \* history of what was rendered onto the canvas, in order

vars == <<pc, text, i, current, sentences, container, stack, runs, lineCall,
          elements, textElements, elementIndex, canvas, timers, timeouts,
          shown>>

----------------------------------------------------------------------------
(* Bounds of the model *)

MaxLen == 5        \* longest string handed to splitBySentences
MaxChildren == 3   \* most child nodes of the top-level container

----------------------------------------------------------------------------
(* Characters and the String methods the program uses *)

\* /[.;?!]/
PUNCTUATION_REGEX(c) == c \in {".", ";", "?", "!"}

\* /\s/ on one character
IsWhitespace(c) == c \in {" ", "\n", "\t", "\r"}

\* /\w/ on one character
IsWordChar(c) ==
  c \in {"a", "b", "c", "d", "e", "f", "g", "h", "i", "j", "k", "l", "m",
         "n", "o", "p", "q", "r", "s", "t", "u", "v", "w", "x", "y", "z",
         "A", "B", "C", "D", "E", "F", "G", "H", "I", "J", "K", "L", "M",
         "N", "O", "P", "Q", "R", "S", "T", "U", "V", "W", "X", "Y", "Z",
         "0", "1", "2", "3", "4", "5", "6", "7", "8", "9", "_"}

RECURSIVE trimStart(_)
trimStart(s) ==
  IF s = <<>> THEN <<>>
  ELSE IF IsWhitespace(Head(s)) THEN trimStart(Tail(s)) ELSE s

RECURSIVE trimEnd(_)
trimEnd(s) ==
  IF s = <<>> THEN <<>>
  ELSE IF IsWhitespace(s[Len(s)]) THEN trimEnd(SubSeq(s, 1, Len(s) - 1)) ELSE s

trim(s) == trimEnd(trimStart(s))

\* RegExp.test(line) for PUNCTUATION_REGEX on a whole string
ContainsPunctuation(s) == \E k \in 1..Len(s) : PUNCTUATION_REGEX(s[k])

----------------------------------------------------------------------------
(* splitBySentences *)

\* the inner while loop: the first index j >= from (0-based) that is the end
\* of the text or holds no terminal punctuation
RECURSIVE PunctuationRunEnd(_, _)
PunctuationRunEnd(t, j) ==
  IF j < Len(t) /\ PUNCTUATION_REGEX(t[j + 1])
  THEN PunctuationRunEnd(t, j + 1)
  ELSE j

\* SplitIteration with line 39 left out: the further marks of a run are
\* skipped but not kept
SplitIteration_SkipsRun(t, st) ==
  LET c == t[st.i + 1]
      cur1 == Append(st.current, c)
  IN IF PUNCTUATION_REGEX(c)
     THEN LET j == PunctuationRunEnd(t, st.i + 1)
              closes == \/ (j < Len(t) /\ IsWhitespace(t[j + 1]))
                        \/ j = Len(t)
          IN [i |-> (j - 1) + 1,
              current |-> IF closes THEN <<>> ELSE cur1,
              sentences |-> IF closes THEN Append(st.sentences, cur1)
                            ELSE st.sentences]
     ELSE [i |-> st.i + 1, current |-> cur1, sentences |-> st.sentences]

\* SplitIteration without the lookahead of lines 45-52: every run closes
SplitIteration_ClosesAlways(t, st) ==
  LET c == t[st.i + 1]
      cur1 == Append(st.current, c)
  IN IF PUNCTUATION_REGEX(c)
     THEN LET j == PunctuationRunEnd(t, st.i + 1)
              cur2 == cur1 \o SubSeq(t, st.i + 2, j)
          IN [i |-> (j - 1) + 1,
              current |-> <<>>,
              sentences |-> Append(st.sentences, cur2)]
     ELSE [i |-> st.i + 1, current |-> cur1, sentences |-> st.sentences]

\* SplitIteration with i = j for i = j - 1 on line 43
SplitIteration_SkipsAhead(t, st) ==
  LET c == t[st.i + 1]
      cur1 == Append(st.current, c)
  IN IF PUNCTUATION_REGEX(c)
     THEN LET j == PunctuationRunEnd(t, st.i + 1)
              cur2 == cur1 \o SubSeq(t, st.i + 2, j)
              closes == \/ (j < Len(t) /\ IsWhitespace(t[j + 1]))
                        \/ j = Len(t)
          IN [i |-> j + 1,
              current |-> IF closes THEN <<>> ELSE cur2,
              sentences |-> IF closes THEN Append(st.sentences, cur2)
                            ELSE st.sentences]
     ELSE [i |-> st.i + 1, current |-> cur1, sentences |-> st.sentences]

\* one iteration of the for loop, the i++ included
SplitIteration(t, st) ==
  LET c == t[st.i + 1]
      cur1 == Append(st.current, c)
  IN IF PUNCTUATION_REGEX(c)
     THEN LET j == PunctuationRunEnd(t, st.i + 1)
              cur2 == cur1 \o SubSeq(t, st.i + 2, j)
              closes == \/ (j < Len(t) /\ IsWhitespace(t[j + 1]))
                        \/ j = Len(t)
          IN [i |-> (j - 1) + 1,
              current |-> IF closes THEN <<>> ELSE cur2,
              sentences |-> IF closes THEN Append(st.sentences, cur2)
                            ELSE st.sentences]
     ELSE [i |-> st.i + 1, current |-> cur1, sentences |-> st.sentences]

\* SplitTail with current for current.trim() on line 55
SplitTail_KeepsBlank(st) ==
  IF st.current # <<>> THEN Append(st.sentences, st.current)
  ELSE st.sentences

\* the code after the loop: the dangling fragment
SplitTail(st) ==
  IF trim(st.current) # <<>> THEN Append(st.sentences, st.current)
  ELSE st.sentences

RECURSIVE SplitLoop(_, _)
SplitLoop(t, st) ==
  IF st.i < Len(t) THEN SplitLoop(t, SplitIteration(t, st)) ELSE st

splitBySentences(t) ==
  SplitTail(SplitLoop(t, [i |-> 0, current |-> <<>>, sentences |-> <<>>]))

----------------------------------------------------------------------------
(* DOM nodes.  A node is a record; an element's childNodes are its children *)
(* field, a text or comment node's data is its text field.  The id field   *)
(* is the node's path from the top-level container: it stands for the      *)
(* attributes that cloneNode copies and tells a clone's source.            *)

TextNode(s) ==
  [type |-> "text", tag |-> "#text", visible |-> TRUE, text |-> s,
   children |-> <<>>, id |-> <<>>]

CommentNode(s) ==
  [type |-> "comment", tag |-> "#comment", visible |-> TRUE, text |-> s,
   children |-> <<>>, id |-> <<>>]

Element(t, vis, kids) ==
  [type |-> "elem", tag |-> t, visible |-> vis, text |-> <<>>,
   children |-> kids, id |-> <<>>]

\* Node.textContent: the text of the text-node descendants, in document order
RECURSIVE textContent(_)
RECURSIVE ChildrenText(_)
ChildrenText(kids) ==
  IF kids = <<>> THEN <<>>
  ELSE textContent(Head(kids)) \o ChildrenText(Tail(kids))
textContent(node) ==
  CASE node.type = "text" -> node.text
    [] node.type = "comment" -> <<>>
    [] OTHER -> ChildrenText(node.children)

\* element.textContent = s: the children are replaced by one text node,
\* or by nothing when s is empty
SetTextContent(el, s) ==
  [el EXCEPT !.children = IF s = <<>> THEN <<>> ELSE <<TextNode(s)>>]

\* document.createElement('p')
CreateP == Element("P", TRUE, <<>>)

\* cloneNode(true): a deep, independent copy
cloneNode(el) == el

\* isVisible that takes every element for visible
isVisible_Always(element) == TRUE

\* window.getComputedStyle(element): display, visibility and opacity
isVisible(element) == element.visible

\* element.children.length === 0
isLeafElement(element) ==
  \A k \in 1..Len(element.children) : element.children[k].type # "elem"

isLineBreak(element) == element.tag = "BR"

isThematicBreak(element) == element.tag = "HR"

\* .replace(/\n/g, ' ').replace(/\s+/g, ' ')
RECURSIVE CollapseWhitespace(_)
CollapseWhitespace(s) ==
  IF s = <<>> THEN <<>>
  ELSE IF IsWhitespace(Head(s))
       THEN <<" ">> \o CollapseWhitespace(trimStart(s))
       ELSE <<Head(s)>> \o CollapseWhitespace(Tail(s))

\* textContent.trim().replace(/\n/g, ' ').replace(/\s+/g, ' ')
NormalizeText(s) == CollapseWhitespace(trim(s))

----------------------------------------------------------------------------
(* The buffer and line handlers *)

\* the <p> with the text set untrimmed
Paragraph_Untrimmed(s) == SetTextContent(CreateP, s)

\* a <p> holding a trimmed sentence
Paragraph(s) == SetTextContent(CreateP, trim(s))

\* the for loop of processBufferToResults and of processLineForSentences:
\* a <p> for each of the first n sentences that is not blank
RECURSIVE PushSentences(_, _, _)
PushSentences(sents, n, results) ==
  IF n = 0 THEN results
  ELSE LET before == PushSentences(sents, n - 1, results)
       IN IF trim(sents[n]) # <<>> THEN Append(before, Paragraph(sents[n]))
          ELSE before

\* processBufferToResults with the loop of line 67 stopping one sentence early
processBufferToResults_DropsLast(textBuffer, results) ==
  IF trim(textBuffer) = <<>> THEN results
  ELSE LET sents == splitBySentences(textBuffer)
       IN PushSentences(sents, Len(sents) - 1, results)

processBufferToResults(textBuffer, results) ==
  IF trim(textBuffer) = <<>> THEN results
  ELSE LET sents == splitBySentences(textBuffer)
       IN PushSentences(sents, Len(sents), results)

\* processLineForSentences whose loop of line 84 runs over every sentence
processLineForSentences_EmitsLast(line, buffer, results) ==
  LET updatedBuffer == buffer \o line
      sents == splitBySentences(updatedBuffer)
  IN IF Len(sents) > 1
     THEN [buffer |-> sents[Len(sents)],
           results |-> PushSentences(sents, Len(sents), results)]
     ELSE [buffer |-> updatedBuffer, results |-> results]

processLineForSentences(line, buffer, results) ==
  LET updatedBuffer == buffer \o line
      sents == splitBySentences(updatedBuffer)
  IN IF Len(sents) > 1
     THEN [buffer |-> sents[Len(sents)],
           results |-> PushSentences(sents, Len(sents) - 1, results)]
     ELSE [buffer |-> updatedBuffer, results |-> results]

\* flushLineBuffer that neither emits nor resets the buffer
flushLineBuffer_Keeps(buffer, results) ==
  [buffer |-> buffer, results |-> results]

flushLineBuffer(buffer, results) ==
  [buffer |-> <<>>,
   results |-> IF trim(buffer) # <<>> THEN Append(results, Paragraph(buffer))
               ELSE results]

\* text.split('\n')
RECURSIVE splitTextIntoLines(_)
splitTextIntoLines(t) ==
  IF \A k \in 1..Len(t) : t[k] # "\n" THEN <<t>>
  ELSE LET n == CHOOSE k \in 1..Len(t) :
                  t[k] = "\n" /\ \A m \in 1..(k - 1) : t[m] # "\n"
       IN <<SubSeq(t, 1, n - 1)>> \o splitTextIntoLines(SubSeq(t, n + 1, Len(t)))

\* the for loop of processTextNode from lineIndex (0-based) on
RECURSIVE ProcessLines(_, _, _, _)
ProcessLines(lines, lineIndex, buffer, results) ==
  IF lineIndex >= Len(lines) THEN [buffer |-> buffer, results |-> results]
  ELSE LET line == lines[lineIndex + 1]
           step == IF ContainsPunctuation(line)
                   THEN processLineForSentences(line, buffer, results)
                   ELSE [buffer |-> buffer \o line, results |-> results]
           isLastLine == lineIndex = Len(lines) - 1
           flushed == IF ~isLastLine
                      THEN flushLineBuffer(step.buffer, step.results)
                      ELSE step
       IN ProcessLines(lines, lineIndex + 1, flushed.buffer, flushed.results)

processTextNode(t, textBuffer, containerResults) ==
  ProcessLines(splitTextIntoLines(t), 0, textBuffer, containerResults)

----------------------------------------------------------------------------
(* The element handlers *)

\* getFollowingText whose loop walks on past an element sibling
RECURSIVE FollowingTextFrom_SkipsElements(_, _)
FollowingTextFrom_SkipsElements(siblings, k) ==
  IF k > Len(siblings) THEN <<>>
  ELSE IF siblings[k].type = "text" THEN textContent(siblings[k])
  ELSE FollowingTextFrom_SkipsElements(siblings, k + 1)

\* element.nextSibling and the while loop of getFollowingText; the element
\* is siblings[idx], k is the position of nextNode
RECURSIVE FollowingTextFrom(_, _)
FollowingTextFrom(siblings, k) ==
  IF k > Len(siblings) THEN <<>>
  ELSE IF siblings[k].type = "text" THEN textContent(siblings[k])
  ELSE IF siblings[k].type = "elem" THEN <<>>
  ELSE FollowingTextFrom(siblings, k + 1)

getFollowingText(siblings, idx) == FollowingTextFrom(siblings, idx + 1)

\* /^[^\w\s]/.test(followingText.trimStart())
StartsWithPunctuation(followingText) ==
  LET f == trimStart(followingText)
  IN f # <<>> /\ ~IsWordChar(f[1]) /\ ~IsWhitespace(f[1])

\* followingText.trimStart().match(/^[.;?!]\s/)
StartsWithTerminator(followingText) ==
  LET f == trimStart(followingText)
  IN Len(f) >= 2 /\ PUNCTUATION_REGEX(f[1]) /\ IsWhitespace(f[2])

hasElementSurroundingText(precedingText, followingText) ==
  \/ Len(precedingText) > 0
  \/ /\ Len(trim(followingText)) > 0
     /\ ~StartsWithTerminator(followingText)
     /\ StartsWithPunctuation(followingText)

\* IsEmbedded without "|| followingStartsWithPunctuation" on line 174
IsEmbedded_SurroundingOnly(siblings, idx, textBuffer) ==
  hasElementSurroundingText(trim(textBuffer), getFollowingText(siblings, idx))

\* the condition of the if in processLeafElement
IsEmbedded(siblings, idx, textBuffer) ==
  LET precedingText == trim(textBuffer)
      followingText == getFollowingText(siblings, idx)
  IN \/ hasElementSurroundingText(precedingText, followingText)
     \/ StartsWithPunctuation(followingText)

\* the clone of a preserved element, its text normalized
NormalizedClone(child) ==
  LET clonedElement == cloneNode(child)
  IN SetTextContent(clonedElement, NormalizeText(textContent(clonedElement)))

processLeafElement(siblings, idx, textBuffer, containerResults) ==
  LET child == siblings[idx]
      elementTextContent == trim(textContent(child))
  IN IF IsEmbedded(siblings, idx, textBuffer)
     THEN [buffer |-> textBuffer \o elementTextContent,
           results |-> containerResults]
     ELSE [buffer |-> <<>>,
           results |-> Append(processBufferToResults(textBuffer, containerResults),
                              NormalizedClone(child))]

processLineBreak(child, textBuffer, containerResults) ==
  [buffer |-> <<>>,
   results |-> processBufferToResults(textBuffer, containerResults)]

\* processThematicBreak that pushes the clone without flushing the buffer
processThematicBreak_NoFlush(child, textBuffer, containerResults) ==
  [buffer |-> textBuffer,
   results |-> Append(containerResults, cloneNode(child))]

\* processThematicBreak that returns the buffer it was given instead of ''
processThematicBreak_KeepsBuffer(child, textBuffer, containerResults) ==
  [buffer |-> textBuffer,
   results |-> Append(processBufferToResults(textBuffer, containerResults),
                      cloneNode(child))]

processThematicBreak(child, textBuffer, containerResults) ==
  LET clonedElement == cloneNode(child)
      normalized == IF textContent(clonedElement) # <<>>
                    THEN NormalizedClone(child)
                    ELSE clonedElement
  IN [buffer |-> <<>>,
      results |-> Append(processBufferToResults(textBuffer, containerResults),
                         normalized)]

\* getElementProcessor that tests isLeafElement ahead of the two breaks
getElementProcessor_LeafFirst(child) ==
  IF isLeafElement(child) THEN "processLeafElement"
  ELSE IF isLineBreak(child) THEN "processLineBreak"
  ELSE IF isThematicBreak(child) THEN "processThematicBreak"
  ELSE "processNonLeafElement"

\* getElementProcessor: the handler chosen for a visible element
getElementProcessor(child) ==
  IF isLineBreak(child) THEN "processLineBreak"
  ELSE IF isThematicBreak(child) THEN "processThematicBreak"
  ELSE IF isLeafElement(child) THEN "processLeafElement"
  ELSE "processNonLeafElement"

----------------------------------------------------------------------------
(* Inputs *)

SeqsUpTo(S, n) == UNION {[1..m -> S] : m \in 0..n}

\* the characters of the strings handed to splitBySentences: a word
\* character, two terminal marks, a space and a newline
SplitChars == {"a", ".", "!", " ", "\n"}

\* "Hello world. This is great! Done"
HelloText ==
  <<"H", "e", "l", "l", "o", " ", "w", "o", "r", "l", "d", ".", " ",
    "T", "h", "i", "s", " ", "i", "s", " ", "g", "r", "e", "a", "t", "!",
    " ", "D", "o", "n", "e">>

SplitInputs == SeqsUpTo(SplitChars, MaxLen) \cup {HelloText}

\* the contents of the text nodes of the top-level container
Texts ==
  { <<" ">>,
    <<"a", ".", " ">>,
    <<"A", ".", "\n", "B">>,
    <<"\n", "b">>,
    <<" ", "M", "o", "r", "e", " ", "t", "e", "x", "t">>,
    <<",", " ", "c", "o", "n", "t", "i", "n", "u", "e", "d">>,
    <<".", " ", "N", "e", "x", "t">>,
    <<"a", ".", " ", "b", ".", " ">> }

\* elements without element children; BR and HR are void elements of HTML,
\* so they are given no element children (an HR may hold text, which
\* processThematicBreak normalizes)
Link == Element("A", TRUE, <<TextNode(<<" ", "k", "\n", " ", "k", " ">>)>>)
Image == Element("IMG", TRUE, <<>>)
LineBreak == Element("BR", TRUE, <<>>)
Rule == Element("HR", TRUE, <<>>)
RuleWithText == Element("HR", TRUE, <<TextNode(<<" ", "h", " ">>)>>)
HiddenSpan == Element("SPAN", FALSE, <<TextNode(<<"q", ".">>)>>)
HiddenDiv == Element("DIV", FALSE, <<Element("B", TRUE, <<TextNode(<<"q">>)>>)>>)

\* elements with element children: text before a leaf, text after a leaf
Containers ==
  {Element("DIV", TRUE, <<TextNode(<<"c">>), Link>>),
   Element("DIV", TRUE, <<Link, TextNode(<<"c">>)>>)}

\* a container two levels deep
DeepContainer ==
  Element("DIV", TRUE,
          <<TextNode(<<"d", ".">>),
            Element("SECTION", TRUE, <<TextNode(<<"e">>), RuleWithText>>)>>)

TopNodes ==
  {TextNode(t) : t \in Texts}
    \cup {Link, Image, LineBreak, Rule, HiddenSpan, HiddenDiv,
          CommentNode(<<"z">>), DeepContainer}
    \cup Containers

\* the id of every node is its path from the container
RECURSIVE WithIds(_, _)
WithIds(kids, prefix) ==
  [k \in 1..Len(kids) |->
     [kids[k] EXCEPT !.id = prefix \o <<k>>,
                     !.children = WithIds(kids[k].children, prefix \o <<k>>)]]

Trees == {WithIds(kids, <<>>) : kids \in SeqsUpTo(TopNodes, MaxChildren)}

----------------------------------------------------------------------------
(* State machine of splitBySentences *)

walkVars == <<container, stack, runs>>
splitVars == <<text, i, current, sentences>>
playVars == <<elements, textElements, elementIndex, canvas, timers, timeouts,
              shown>>

\* no call of processLineForSentences is being observed
LineIdle == lineCall = <<>>

\* playTextualContent has not been called
PlayIdle ==
  /\ elements = <<>>
  /\ textElements = <<>>
  /\ elementIndex = 0
  /\ canvas = [children |-> <<>>, opacity |-> 0]
  /\ timers = {}
  /\ timeouts = <<>>
  /\ shown = <<>>

InitSplit ==
  /\ pc = "split"
  /\ text \in SplitInputs
  /\ i = 0
  /\ current = <<>>
  /\ sentences = <<>>
  /\ container = <<>>
  /\ stack = <<>>
  /\ runs = <<>>
  /\ LineIdle
  /\ PlayIdle

\* one iteration of the for loop
SplitStep ==
  /\ pc = "split"
  /\ i < Len(text)
  /\ LET st == SplitIteration(text, [i |-> i, current |-> current,
                                     sentences |-> sentences])
     IN /\ i' = st.i
        /\ current' = st.current
        /\ sentences' = st.sentences
  /\ UNCHANGED <<pc, text, walkVars, lineCall, playVars>>

\* the loop is over: the dangling fragment, and return
SplitReturn ==
  /\ pc = "split"
  /\ i >= Len(text)
  /\ sentences' = SplitTail([i |-> i, current |-> current,
                             sentences |-> sentences])
  /\ pc' = "split_returned"
  /\ UNCHANGED <<text, i, current, walkVars, lineCall, playVars>>

NextSplit == SplitStep \/ SplitReturn

SpecSplit == InitSplit /\ [][NextSplit]_vars

----------------------------------------------------------------------------
(* State machine of processContainer *)

\* NewFrame with the results kept in a global that is never reset
NewFrame_Stale(childNodes) ==
  [childNodes |-> childNodes, idx |-> 1, textBuffer |-> <<>>,
   containerResults |-> IF runs # <<>> THEN runs[Len(runs)] ELSE <<>>,
   updatedResults |-> <<>>]

\* a fresh invocation: lines 224-225
NewFrame(childNodes) ==
  [childNodes |-> childNodes, idx |-> 1, textBuffer |-> <<>>,
   containerResults |-> <<>>, updatedResults |-> <<>>]

Top == stack[Len(stack)]
Child == Top.childNodes[Top.idx]
HasChild == pc = "walk" /\ stack # <<>> /\ Top.idx <= Len(Top.childNodes)

\* the frame after a handler returned {buffer, results}
Advance(frame, result) ==
  [frame EXCEPT !.idx = frame.idx + 1,
                !.textBuffer = result.buffer,
                !.containerResults = result.results]

SetTop(frame) == stack' = [stack EXCEPT ![Len(stack)] = frame]

Init ==
  /\ pc = "walk"
  /\ container \in Trees
  /\ runs = <<>>
  /\ stack = <<NewFrame(container)>>
  /\ text = <<>>
  /\ i = 0
  /\ current = <<>>
  /\ sentences = <<>>
  /\ LineIdle
  /\ PlayIdle

TextChild ==
  /\ HasChild
  /\ Child.type = "text"
  /\ SetTop(Advance(Top, processTextNode(textContent(Child), Top.textBuffer,
                                         Top.containerResults)))
  /\ UNCHANGED <<pc, container, runs, splitVars, lineCall, playVars>>

\* an element that is not visible: neither branch of the loop body
HiddenChild ==
  /\ HasChild
  /\ Child.type = "elem"
  /\ ~isVisible(Child)
  /\ SetTop([Top EXCEPT !.idx = Top.idx + 1])
  /\ UNCHANGED <<pc, container, runs, splitVars, lineCall, playVars>>

\* a node that is neither text nor element: neither branch of the loop body
OtherChild ==
  /\ HasChild
  /\ Child.type \notin {"text", "elem"}
  /\ SetTop([Top EXCEPT !.idx = Top.idx + 1])
  /\ UNCHANGED <<pc, container, runs, splitVars, lineCall, playVars>>

VisibleElement(processor) ==
  /\ HasChild
  /\ Child.type = "elem"
  /\ isVisible(Child)
  /\ getElementProcessor(Child) = processor

LineBreakChild ==
  /\ VisibleElement("processLineBreak")
  /\ SetTop(Advance(Top, processLineBreak(Child, Top.textBuffer,
                                          Top.containerResults)))
  /\ UNCHANGED <<pc, container, runs, splitVars, lineCall, playVars>>

ThematicBreakChild ==
  /\ VisibleElement("processThematicBreak")
  /\ SetTop(Advance(Top, processThematicBreak(Child, Top.textBuffer,
                                              Top.containerResults)))
  /\ UNCHANGED <<pc, container, runs, splitVars, lineCall, playVars>>

LeafChild ==
  /\ VisibleElement("processLeafElement")
  /\ SetTop(Advance(Top, processLeafElement(Top.childNodes, Top.idx,
                                            Top.textBuffer,
                                            Top.containerResults)))
  /\ UNCHANGED <<pc, container, runs, splitVars, lineCall, playVars>>

\* processNonLeafElement that hands its buffer on to the nested invocation
\* instead of flushing it
NonLeafChild_SharesBuffer ==
  /\ VisibleElement("processNonLeafElement")
  /\ stack' = Append(
       [stack EXCEPT ![Len(stack)] =
          [Top EXCEPT !.updatedResults = Top.containerResults]],
       [NewFrame(Child.children) EXCEPT !.textBuffer = Top.textBuffer])
  /\ UNCHANGED <<pc, container, runs, splitVars, lineCall, playVars>>

\* processNonLeafElement up to its call of processContainer: the buffer is
\* flushed into the handler's updatedResults and the nested invocation starts
NonLeafChild ==
  /\ VisibleElement("processNonLeafElement")
  /\ stack' = Append(
       [stack EXCEPT ![Len(stack)] =
          [Top EXCEPT !.updatedResults =
             processBufferToResults(Top.textBuffer, Top.containerResults)]],
       NewFrame(Child.children))
  /\ UNCHANGED <<pc, container, runs, splitVars, lineCall, playVars>>

\* a nested processContainer is past its last child: it flushes its buffer
\* and returns; processNonLeafElement pushes the nested results and returns
NestedReturn ==
  /\ pc = "walk"
  /\ Len(stack) > 1
  /\ Top.idx > Len(Top.childNodes)
  /\ LET nestedResults == processBufferToResults(Top.textBuffer,
                                                 Top.containerResults)
         caller == stack[Len(stack) - 1]
     IN stack' = Append(
          SubSeq(stack, 1, Len(stack) - 2),
          [Advance(caller, [buffer |-> <<>>,
                            results |-> caller.updatedResults \o nestedResults])
             EXCEPT !.updatedResults = <<>>])
  /\ UNCHANGED <<pc, container, runs, splitVars, lineCall, playVars>>

\* the top-level processContainer flushes its buffer and returns
TopReturn ==
  /\ pc = "walk"
  /\ Len(stack) = 1
  /\ Top.idx > Len(Top.childNodes)
  /\ runs' = Append(runs, processBufferToResults(Top.textBuffer,
                                                 Top.containerResults))
  /\ stack' = <<>>
  /\ pc' = "returned"
  /\ UNCHANGED <<container, splitVars, lineCall, playVars>>

\* extractVisibleTextualContent is called again on the same document
InvokeAgain ==
  /\ pc = "returned"
  /\ Len(runs) < 2
  /\ stack' = <<NewFrame(container)>>
  /\ pc' = "walk"
  /\ UNCHANGED <<container, runs, splitVars, lineCall, playVars>>

Next ==
  \/ TextChild
  \/ HiddenChild
  \/ OtherChild
  \/ LineBreakChild
  \/ ThematicBreakChild
  \/ LeafChild
  \/ NonLeafChild
  \/ NestedReturn
  \/ TopReturn

Spec == Init /\ [][Next]_vars

\* the traversal, and a second invocation on the same document
NextTwice == Next \/ InvokeAgain

SpecTwice == Init /\ [][NextTwice]_vars

\* both state machines; the splitter's loop is fair: the code is synchronous
\* and single-threaded, so an iteration that can run does run
SpecBoth ==
  /\ Init \/ InitSplit
  /\ [][Next \/ NextSplit]_vars
  /\ WF_vars(NextSplit)

----------------------------------------------------------------------------
(* Operators the properties are stated with *)

RECURSIVE Concat(_)
Concat(ss) == IF ss = <<>> THEN <<>> ELSE Head(ss) \o Concat(Tail(ss))

\* s with all whitespace deleted
NoWhitespace(s) == SelectSeq(s, LAMBDA c : ~IsWhitespace(c))

\* the text of a block sequence, in sequence order
BlocksText(blocks) ==
  Concat([k \in 1..Len(blocks) |-> textContent(blocks[k])])

\* the text the traversal reaches, in depth-first document order
RECURSIVE DocumentText(_)
DocumentText(kids) ==
  IF kids = <<>> THEN <<>>
  ELSE LET n == Head(kids)
           own == CASE n.type = "text" -> n.text
                    [] n.type = "elem" /\ n.visible /\ n.tag = "BR" -> <<>>
                    [] n.type = "elem" /\ n.visible /\ n.tag = "HR" ->
                         textContent(n)
                    [] n.type = "elem" /\ n.visible /\ isLeafElement(n) ->
                         textContent(n)
                    [] n.type = "elem" /\ n.visible -> DocumentText(n.children)
                    [] OTHER -> <<>>
       IN own \o DocumentText(Tail(kids))

----------------------------------------------------------------------------
(* C1 *)

\* C1: when processContainer has returned, the text of the output blocks in
\* sequence order, whitespace deleted, is the text of the text nodes and of
\* the visible leaf and thematic-break elements the traversal reaches, in
\* depth-first document order, whitespace deleted: nothing is dropped,
\* duplicated or reordered.
C1_OrderPreserved ==
  \A r \in 1..Len(runs) :
    NoWhitespace(BlocksText(runs[r])) = NoWhitespace(DocumentText(container))

\* a tree with buffered text, a standalone leaf and a nested container has
\* been processed into several blocks
C1_Witness ==
  /\ pc = "returned"
  /\ Len(container) = 3
  /\ container[1].type = "text"
  /\ container[2].tag = "IMG"
  /\ container[3].tag = "DIV" /\ container[3].visible
  /\ Len(runs[1]) >= 4

----------------------------------------------------------------------------
(* C2 *)

\* C2 as stated: the fragments concatenated give the input exactly,
\* leading and trailing whitespace included.
C2_Lossless ==
  pc = "split_returned" => Concat(sentences) = text

\* C2, amended: the fragments concatenated give the input exactly, except
\* that whitespace at the end of the input is dropped when it follows
\* terminal punctuation or makes up the whole input.
C2_LosslessUpToTail ==
  pc = "split_returned" =>
    LET kept == trimEnd(text)
    IN Concat(sentences) =
         IF kept = <<>> \/ PUNCTUATION_REGEX(kept[Len(kept)]) THEN kept
         ELSE text

\* a sentence followed by trailing whitespace has been split
C2_Witness ==
  /\ pc = "split_returned"
  /\ text = <<" ", "a", ".", " ">>
  /\ sentences = << <<" ", "a", ".">> >>

----------------------------------------------------------------------------
(* C8 *)

\* the positions (1-based) after which a fragment closes: a terminal mark
\* followed by whitespace or by the end of the input
Boundaries(t) ==
  {n \in 1..Len(t) :
     /\ PUNCTUATION_REGEX(t[n])
     /\ n = Len(t) \/ IsWhitespace(t[n + 1])}

\* the input cut after every boundary from position from on; the rest after
\* the last boundary is a fragment when it is not blank
RECURSIVE CutAtBoundaries(_, _)
CutAtBoundaries(t, from) ==
  LET ahead == {n \in Boundaries(t) : n >= from}
  IN IF ahead = {}
     THEN IF trim(SubSeq(t, from, Len(t))) # <<>>
          THEN <<SubSeq(t, from, Len(t))>>
          ELSE <<>>
     ELSE LET n == CHOOSE m \in ahead : \A o \in ahead : m <= o
          IN <<SubSeq(t, from, n)>> \o CutAtBoundaries(t, n + 1)

\* C8: the fragments are the input cut exactly after every run of terminal
\* punctuation that is followed by whitespace or the end of the input, a run
\* being one boundary; every fragment but the last ends with terminal
\* punctuation; "Hello world. This is great! Done" gives the three fragments.
C8_BoundaryRule ==
  pc = "split_returned" =>
    /\ sentences = CutAtBoundaries(text, 1)
    /\ \A k \in 1..(Len(sentences) - 1) :
         PUNCTUATION_REGEX(sentences[k][Len(sentences[k])])
    /\ text = HelloText =>
         sentences = <<SubSeq(HelloText, 1, 12), SubSeq(HelloText, 13, 27),
                       SubSeq(HelloText, 28, 32)>>

\* the example has been split into its three fragments
C8_Witness ==
  /\ pc = "split_returned"
  /\ text = HelloText
  /\ Len(sentences) = 3
  /\ sentences[3] = <<" ", "D", "o", "n", "e">>

----------------------------------------------------------------------------
(* C9 *)

\* C9: the empty string and every whitespace-only string give the empty
\* list, and no fragment returned is empty or whitespace only.
C9_NoBlankFragment ==
  pc = "split_returned" =>
    /\ trim(text) = <<>> => sentences = <<>>
    /\ \A k \in 1..Len(sentences) : trim(sentences[k]) # <<>>

\* a whitespace-only string has been split into nothing
C9_Witness ==
  /\ pc = "split_returned"
  /\ text = <<" ", "\n", " ">>
  /\ sentences = <<>>

----------------------------------------------------------------------------
(* C3 *)

\* "A.\nB"
NewlineText == <<"A", ".", "\n", "B">>

\* the frame of the running invocation after the step
TopAfter == stack'[Len(stack')]

\* the blocks a handler appended, from the frame before and the frame after
Appended(before, after) ==
  SubSeq(after.containerResults, Len(before.containerResults) + 1,
         Len(after.containerResults))

\* every newline of t falls on a block boundary: the blocks appended up to
\* some point hold the old buffer and the text before the newline, the
\* blocks appended after it and the new buffer hold the text after it
C3_NewlineIsBoundary(before, after, t) ==
  LET new == Appended(before, after)
  IN /\ SubSeq(after.containerResults, 1, Len(before.containerResults))
          = before.containerResults
     /\ \A n \in 1..Len(t) :
          t[n] = "\n" =>
            \E p \in 0..Len(new) :
              /\ NoWhitespace(BlocksText(SubSeq(new, 1, p)))
                   = NoWhitespace(before.textBuffer \o SubSeq(t, 1, n - 1))
              /\ NoWhitespace(BlocksText(SubSeq(new, p + 1, Len(new)))
                                \o after.textBuffer)
                   = NoWhitespace(SubSeq(t, n + 1, Len(t)))

\* C3: a newline is a hard boundary.  Whenever processTextNode handles a
\* text node, each of its newlines falls between two blocks (so no block
\* holds text from both sides, and the buffer returned holds text of the
\* final line only), and the text node "A.\nB" alone in a container gives
\* exactly the blocks "A." and "B".
C3_NewlineHardBoundary ==
  /\ [](pc = "returned" /\ container = WithIds(<<TextNode(NewlineText)>>, <<>>)
          => runs[1] = <<Paragraph(<<"A", ".">>), Paragraph(<<"B">>)>>)
  /\ [][HasChild /\ Child.type = "text"
          => C3_NewlineIsBoundary(Top, TopAfter, Child.text)]_vars

\* "A.\nB" alone has been processed into two blocks
C3_Witness ==
  /\ pc = "returned"
  /\ container = WithIds(<<TextNode(NewlineText)>>, <<>>)
  /\ Len(runs[1]) = 2

----------------------------------------------------------------------------
(* C4 *)

MoreText == <<" ", "M", "o", "r", "e", " ", "t", "e", "x", "t">>
Continued == <<",", " ", "c", "o", "n", "t", "i", "n", "u", "e", "d">>
DotNext == <<".", " ", "N", "e", "x", "t">>

\* the child is a visible leaf element, no line break or thematic break
C4_AtLeaf ==
  /\ HasChild
  /\ Child.type = "elem"
  /\ Child.visible
  /\ Child.tag \notin {"BR", "HR"}
  /\ isLeafElement(Child)

\* the leaf was merged: its trimmed text joined the buffer, no block
C4_Embedded(before, after, child) ==
  /\ after.textBuffer = before.textBuffer \o trim(textContent(child))
  /\ after.containerResults = before.containerResults

\* the leaf was preserved: its clone is the last block, the buffer is empty
C4_Standalone(before, after, child) ==
  /\ Len(after.containerResults) > Len(before.containerResults)
  /\ after.containerResults[Len(after.containerResults)].id = child.id
  /\ after.textBuffer = <<>>

\* the text of the next sibling when that is a text node
C4_Following == getFollowingText(Top.childNodes, Top.idx)

\* C4: a visible leaf element is embedded if and only if the trimmed buffer
\* is not empty or the following text, leading whitespace stripped, begins
\* with a character that is neither a word character nor whitespace;
\* otherwise it is standalone.  With an empty buffer, " More text" gives
\* standalone, ", continued" and ". Next" give embedded.
C4_LeafClassification ==
  [][C4_AtLeaf =>
       LET wanted ==
             \/ trim(Top.textBuffer) # <<>>
             \/ LET f == trimStart(C4_Following)
                IN f # <<>> /\ ~IsWordChar(f[1]) /\ ~IsWhitespace(f[1])
       IN /\ wanted => C4_Embedded(Top, TopAfter, Child)
          /\ ~wanted => C4_Standalone(Top, TopAfter, Child)
          /\ Top.textBuffer = <<>> /\ C4_Following = MoreText
               => C4_Standalone(Top, TopAfter, Child)
          /\ Top.textBuffer = <<>> /\ C4_Following \in {Continued, DotNext}
               => C4_Embedded(Top, TopAfter, Child)]_vars

\* a leaf with an empty buffer before it and ". Next" after it was embedded
C4_Witness ==
  /\ pc = "walk"
  /\ Len(stack) = 1
  /\ Top.idx = 2
  /\ Len(Top.childNodes) = 2
  /\ Top.childNodes[1].tag = "A"
  /\ Top.childNodes[2].type = "text" /\ Top.childNodes[2].text = DotNext
  /\ Top.textBuffer = <<"k", "\n", " ", "k">>
  /\ Top.containerResults = <<>>

----------------------------------------------------------------------------
(* C5 *)

C5_IsRule(n) == n.type = "elem" /\ n.visible /\ n.tag = "HR"

\* the paths of the thematic breaks the traversal dispatches
RECURSIVE C5_Rules(_)
C5_Rules(kids) ==
  UNION {IF C5_IsRule(kids[k]) THEN {kids[k].id}
         ELSE IF kids[k].type = "elem" /\ kids[k].visible
                 /\ ~isLineBreak(kids[k]) /\ ~isLeafElement(kids[k])
              THEN C5_Rules(kids[k].children)
              ELSE {} : k \in 1..Len(kids)}

\* the document text that precedes / follows the node at a path
RECURSIVE C5_TextBefore(_, _)
C5_TextBefore(kids, path) ==
  DocumentText(SubSeq(kids, 1, path[1] - 1))
    \o (IF Len(path) > 1
        THEN C5_TextBefore(kids[path[1]].children, Tail(path))
        ELSE <<>>)

RECURSIVE C5_TextAfter(_, _)
C5_TextAfter(kids, path) ==
  (IF Len(path) > 1
   THEN C5_TextAfter(kids[path[1]].children, Tail(path))
   ELSE <<>>)
    \o DocumentText(SubSeq(kids, path[1] + 1, Len(kids)))

\* exactly one clone of the rule at path is in blocks, the blocks before it
\* hold the text before the rule and the blocks after it the text after
C5_Placed(blocks, path, textBefore, textAfter) ==
  LET at == {p \in 1..Len(blocks) : blocks[p].id = path}
  IN /\ Cardinality(at) = 1
     /\ \A p \in at :
          /\ blocks[p].tag = "HR"
          /\ NoWhitespace(BlocksText(SubSeq(blocks, 1, p - 1)))
               = NoWhitespace(textBefore)
          /\ NoWhitespace(BlocksText(SubSeq(blocks, p + 1, Len(blocks))))
               = NoWhitespace(textAfter)

\* C5: every thematic break dispatched by processContainer has exactly one
\* clone in the output, at its point in document order: the blocks before
\* the clone hold exactly the content that precedes the break, the blocks
\* after it exactly the content that follows, whatever the buffer held; and
\* while an invocation runs, the same holds of its results and buffer for
\* the breaks among the children it has processed.
C5_RuleInPlace ==
  /\ \A r \in 1..Len(runs) : \A path \in C5_Rules(container) :
       C5_Placed(runs[r], path, C5_TextBefore(container, path),
                 C5_TextAfter(container, path))
  /\ \A s \in 1..Len(stack) :
       LET f == stack[s]
       IN \A k \in 1..(f.idx - 1) :
            C5_IsRule(f.childNodes[k]) =>
              C5_Placed(f.containerResults \o <<Paragraph(f.textBuffer)>>,
                        f.childNodes[k].id,
                        DocumentText(SubSeq(f.childNodes, 1, k - 1)),
                        DocumentText(SubSeq(f.childNodes, k + 1, f.idx - 1)))

\* a thematic break between buffered text and following text was placed
\* between their blocks
C5_Witness ==
  /\ pc = "returned"
  /\ Len(container) = 3
  /\ container[1].type = "text" /\ container[1].text = <<"a", ".", " ">>
  /\ container[2].tag = "HR" /\ container[2].visible
  /\ container[3].type = "text" /\ container[3].text = MoreText
  /\ Len(runs[1]) = 3
  /\ runs[1][2].tag = "HR"

----------------------------------------------------------------------------
(* C6 *)

\* the character that only the text inside invisible elements holds
HiddenChar == "q"

C6_Clean(s) == \A k \in 1..Len(s) : s[k] # HiddenChar

\* C6: when the child is an invisible element, the step leaves the buffer
\* and the results unchanged and starts no nested invocation; no invocation
\* ever runs on a container that is not visible; and no buffer or block
\* ever holds text from inside an invisible element.
C6_InvisibleSkipped ==
  /\ [](/\ \A s \in 1..Len(stack) :
             /\ C6_Clean(stack[s].textBuffer)
             /\ C6_Clean(BlocksText(stack[s].containerResults))
             /\ C6_Clean(BlocksText(stack[s].updatedResults))
             /\ s > 1 => isVisible(stack[s - 1].childNodes[stack[s - 1].idx])
        /\ \A r \in 1..Len(runs) : C6_Clean(BlocksText(runs[r])))
  /\ [][HasChild /\ Child.type = "elem" /\ ~Child.visible
          => /\ Len(stack') = Len(stack)
             /\ TopAfter.textBuffer = Top.textBuffer
             /\ TopAfter.containerResults = Top.containerResults
             /\ TopAfter.idx = Top.idx + 1]_vars

\* an invisible element between two text nodes was skipped with the buffer
\* kept
C6_Witness ==
  /\ pc = "walk"
  /\ Len(stack) = 1
  /\ Len(Top.childNodes) = 3
  /\ Top.idx = 3
  /\ Top.childNodes[1].type = "text"
  /\ Top.childNodes[2].type = "elem" /\ ~Top.childNodes[2].visible
  /\ Top.childNodes[2].children # <<>>
  /\ Top.textBuffer = MoreText
  /\ Top.containerResults = <<>>

----------------------------------------------------------------------------
(* C7 *)

----------------------------------------------------------------------------
(* C10 *)

\* the steps a traversal of kids still takes: one per child, one to
\* return, and those of the nested traversals it starts
RECURSIVE C10_Work(_)
C10_Work(kids) ==
  IF kids = <<>> THEN 1
  ELSE LET n == Head(kids)
           nested == n.type = "elem" /\ n.visible /\ ~isLineBreak(n)
                       /\ ~isThematicBreak(n) /\ ~isLeafElement(n)
       IN 1 + (IF nested THEN C10_Work(n.children) ELSE 0)
            + C10_Work(Tail(kids))

RECURSIVE C10_StackWork(_)
C10_StackWork(frames) ==
  IF frames = <<>> THEN 0
  ELSE LET f == frames[Len(frames)]
           callers == SubSeq(frames, 1, Len(frames) - 1)
           from == IF Len(frames) = Len(stack) THEN f.idx ELSE f.idx + 1
       IN C10_Work(SubSeq(f.childNodes, from, Len(f.childNodes)))
            + C10_StackWork(callers)

\* the steps left until the running top-level invocation returns
C10_Remaining == IF pc = "walk" THEN C10_StackWork(stack) ELSE 0
C10_RemainingAfter == IF pc' = "walk" THEN C10_StackWork(stack)' ELSE 0

\* some branch of the loop body, or the return, applies
C10_CanStep ==
  /\ stack # <<>>
  /\ Top.idx <= Len(Top.childNodes) + 1
  /\ HasChild =>
       \/ Child.type = "text"
       \/ Child.type = "elem" /\ ~isVisible(Child)
       \/ Child.type = "elem" /\ isVisible(Child)
            /\ getElementProcessor(Child) \in
                 {"processLineBreak", "processThematicBreak",
                  "processLeafElement", "processNonLeafElement"}
       \/ Child.type \notin {"text", "elem"}

----------------------------------------------------------------------------
(* C11 *)

\* a block created by the walker (a <p>), as opposed to a clone of a child
IsTextBlock(block) == block.tag = "P" /\ block.id = <<>>

\* the text has a terminal punctuation character, then whitespace, then
\* further non-whitespace text
HasInteriorBoundary(s) ==
  \E n \in 1..Len(s) : \E m \in 1..Len(s) :
    /\ m > n + 1
    /\ PUNCTUATION_REGEX(s[n])
    /\ IsWhitespace(s[n + 1])
    /\ ~IsWhitespace(s[m])

C11_AllSingle(blocks) ==
  \A k \in 1..Len(blocks) :
    IsTextBlock(blocks[k]) => ~HasInteriorBoundary(textContent(blocks[k]))

\* C11: every <p> block in the results of processContainer, at any moment
\* and at return, is one sentence or one incomplete fragment: it has no
\* terminal punctuation followed by whitespace and then further text.
C11_SingleSentence ==
  /\ \A s \in 1..Len(stack) :
       /\ C11_AllSingle(stack[s].containerResults)
       /\ C11_AllSingle(stack[s].updatedResults)
  /\ \A r \in 1..Len(runs) : C11_AllSingle(runs[r])

----------------------------------------------------------------------------
(* State machine of one call of processLineForSentences *)

MaxLine == 6      \* longest line handed to processLineForSentences
MaxBuffer == 2    \* longest buffer handed to processLineForSentences

\* the characters of lines and buffers: a word character, a terminal mark
\* and a space; a line holds no newline (splitTextIntoLines removed them)
LineChars == {"a", ".", " "}

\* processTextNode calls processLineForSentences only for a line that
\* holds terminal punctuation (line 123)
Lines == {l \in SeqsUpTo(LineChars, MaxLine) : ContainsPunctuation(l)}

Buffers == SeqsUpTo(LineChars, MaxBuffer)

\* the results so far: none, or a block emitted earlier
EarlierResults == {<<>>, <<Paragraph(<<"z", ".">>)>>}

InitLine ==
  /\ pc = "line"
  /\ lineCall \in [line : Lines, buffer : Buffers, results : EarlierResults,
                   returned : {<<>>}]
  /\ text = <<>>
  /\ i = 0
  /\ current = <<>>
  /\ sentences = <<>>
  /\ container = <<>>
  /\ stack = <<>>
  /\ runs = <<>>
  /\ PlayIdle

\* the call runs and returns { buffer, results }
LineReturn ==
  /\ pc = "line"
  /\ lineCall' = [lineCall EXCEPT !.returned =
                    <<processLineForSentences(lineCall.line, lineCall.buffer,
                                              lineCall.results)>>]
  /\ pc' = "line_returned"
  /\ UNCHANGED <<walkVars, splitVars, playVars>>

NextLine == LineReturn

SpecLine == InitLine /\ [][NextLine]_vars

----------------------------------------------------------------------------
(* C12 *)

\* the call observed: what was handed in and what came back
LineIn == lineCall.buffer \o lineCall.line
LineOut == lineCall.returned[1]
LineFragments == splitBySentences(LineIn)

\* the blocks the call added to the results
LineEmitted ==
  SubSeq(LineOut.results, Len(lineCall.results) + 1, Len(LineOut.results))

\* the earlier results are kept in front, and the blocks added are <p>
\* blocks holding, in order, the trimmed fragments before the last one that
\* are not blank
C12_EmitsAllButLast ==
  LET frags == LineFragments
      kept == SelectSeq(SubSeq(frags, 1, Len(frags) - 1),
                        LAMBDA f : trim(f) # <<>>)
  IN /\ Len(LineOut.results) >= Len(lineCall.results)
     /\ SubSeq(LineOut.results, 1, Len(lineCall.results)) = lineCall.results
     /\ Len(LineEmitted) = Len(kept)
     /\ \A k \in 1..Len(kept) :
          /\ IsTextBlock(LineEmitted[k])
          /\ textContent(LineEmitted[k]) = trim(kept[k])

\* C12 as stated: for a line holding terminal punctuation, every fragment
\* of buffer + line but the last is emitted, and the new buffer is exactly
\* the last fragment the splitter returned, also when it returned one.
C12_BufferIsLastFragment ==
  pc = "line_returned" =>
    /\ LineFragments # <<>>
    /\ C12_EmitsAllButLast
    /\ LineOut.buffer = LineFragments[Len(LineFragments)]

\* C12, amended: every fragment but the last is emitted; the new buffer is
\* the last fragment when the splitter returned several, and is buffer +
\* line unchanged when it returned exactly one: that fragment followed by
\* the whitespace the splitter dropped from the end.
C12_BufferIsLastOrWhole ==
  pc = "line_returned" =>
    LET frags == LineFragments
        last == frags[Len(frags)]
    IN /\ frags # <<>>
       /\ C12_EmitsAllButLast
       /\ Len(frags) > 1 => LineOut.buffer = last
       /\ Len(frags) = 1 =>
            /\ LineOut.buffer = LineIn
            /\ LineEmitted = <<>>
            /\ SubSeq(LineIn, 1, Len(last)) = last
            /\ trim(SubSeq(LineIn, Len(last) + 1, Len(LineIn))) = <<>>

\* "a. " on an empty buffer: the splitter returns the one fragment "a.",
\* and the buffer keeps the trailing space
C12_Witness ==
  /\ pc = "line_returned"
  /\ lineCall.buffer = <<>>
  /\ lineCall.line = <<"a", ".", " ">>
  /\ LineFragments = <<(<<"a", ".">>)>>
  /\ LineOut.buffer = <<"a", ".", " ">>
  /\ LineOut.results = lineCall.results

----------------------------------------------------------------------------
(* C13 *)

\* C13: the carry of processLineForSentences is lossless: the returned
\* buffer is the end of buffer + line, character for character, and the
\* blocks emitted hold the text in front of it; so whitespace after the
\* last complete sentence of the line is still in the returned buffer.
C13_LosslessCarry ==
  pc = "line_returned" =>
    \E k \in 0..Len(LineIn) :
      /\ LineOut.buffer = SubSeq(LineIn, k + 1, Len(LineIn))
      /\ NoWhitespace(BlocksText(LineEmitted))
           = NoWhitespace(SubSeq(LineIn, 1, k))

----------------------------------------------------------------------------
(* C14 *)

\* the blocks are <p> blocks that hold the non-whitespace text of the buffer
C14_Flushed(blocks, buffer) ==
  /\ \A k \in 1..Len(blocks) : IsTextBlock(blocks[k])
  /\ NoWhitespace(BlocksText(blocks)) = NoWhitespace(buffer)

\* a handler of the running invocation appended a clone: the clone is the
\* last block appended, the blocks appended ahead of it hold the text of the
\* buffer, and the buffer is empty afterwards
C14_FlushBeforePreserve ==
  pc = "walk" /\ stack # <<>> /\ Len(stack') = Len(stack) =>
    LET new == Appended(Top, TopAfter)
    IN (\E k \in 1..Len(new) : ~IsTextBlock(new[k])) =>
         /\ ~IsTextBlock(new[Len(new)])
         /\ new[Len(new)].id = Child.id
         /\ C14_Flushed(SubSeq(new, 1, Len(new) - 1), Top.textBuffer)
         /\ TopAfter.textBuffer = <<>>

\* an invocation returns: what it returns is its results followed by the
\* blocks of the text still in its buffer
C14_FlushAtReturn ==
  pc = "walk" /\ stack # <<>> /\ Len(stack') < Len(stack) =>
    LET returned == IF Len(stack) = 1 THEN runs'[Len(runs')]
                    ELSE SubSeq(TopAfter.containerResults,
                                Len(stack[Len(stack) - 1].updatedResults) + 1,
                                Len(TopAfter.containerResults))
        own == Len(Top.containerResults)
    IN /\ Len(returned) >= own
       /\ SubSeq(returned, 1, own) = Top.containerResults
       /\ C14_Flushed(SubSeq(returned, own + 1, Len(returned)),
                      Top.textBuffer)

\* C14: whenever a clone of a standalone leaf or of a thematic break is
\* appended to the results, the text of the buffer has been appended as <p>
\* blocks ahead of it and the buffer is empty right after; and at the
\* return of processContainer no text of the buffer is left unemitted.
C14_PreserveAfterFlush ==
  /\ [][C14_FlushBeforePreserve]_vars
  /\ [][C14_FlushAtReturn]_vars

\* ". Next" then a rule: "." was emitted by the text node, the rule flushed
\* the incomplete "Next" ahead of its clone and left the buffer empty
C14_Witness ==
  /\ pc = "walk"
  /\ Len(stack) = 1
  /\ Top.idx = 3
  /\ Top.childNodes[1].type = "text" /\ Top.childNodes[1].text = DotNext
  /\ Top.childNodes[2].tag = "HR" /\ Top.childNodes[2].visible
  /\ Len(Top.containerResults) = 3
  /\ textContent(Top.containerResults[2]) = <<"N", "e", "x", "t">>
  /\ Top.containerResults[3].id = <<2>>
  /\ Top.textBuffer = <<>>

----------------------------------------------------------------------------
(* C15 *)

\* the frame of the handler that waits for the nested invocation at depth s
Caller(s) == stack[s - 1]

\* a nested invocation runs: its caller holds, in updatedResults, its own
\* results followed by the flush of its buffer; the nested frame works on
\* the children of the caller's current child, and its results and buffer
\* hold the text of the children it has passed, nothing from outside
C15_Nested ==
  \A s \in 2..Len(stack) :
    LET caller == Caller(s)
        own == Len(caller.containerResults)
        passed == SubSeq(stack[s].childNodes, 1,
                         IF s = Len(stack) THEN stack[s].idx - 1
                         ELSE stack[s].idx)
    IN /\ Len(caller.updatedResults) >= own
       /\ SubSeq(caller.updatedResults, 1, own) = caller.containerResults
       /\ C14_Flushed(SubSeq(caller.updatedResults, own + 1,
                             Len(caller.updatedResults)), caller.textBuffer)
       /\ stack[s].childNodes = caller.childNodes[caller.idx].children
       /\ s = Len(stack) =>
            NoWhitespace(BlocksText(stack[s].containerResults)
                           \o stack[s].textBuffer)
              = NoWhitespace(DocumentText(passed))

\* the nested invocation starts with an empty buffer and empty results
C15_StartsEmpty ==
  Len(stack') > Len(stack) /\ stack # <<>> =>
    /\ TopAfter.textBuffer = <<>>
    /\ TopAfter.containerResults = <<>>
    /\ TopAfter.idx = 1

\* while the nested invocation runs, the frames of its callers stay as
\* they are: the callers' buffers are not read or written
C15_CallersUntouched ==
  Len(stack') >= Len(stack) /\ stack' # <<>> =>
    /\ \A s \in 1..(Len(stack) - 1) : stack'[s] = stack[s]
    /\ Len(stack') > Len(stack) /\ stack # <<>> =>
         /\ stack'[Len(stack)].textBuffer = Top.textBuffer
         /\ stack'[Len(stack)].containerResults = Top.containerResults

\* the nested invocation returns: the handler's results are the caller's
\* results, the flush of the caller's buffer, then the whole sequence the
\* nested invocation returned, and the handler returns an empty buffer
C15_Spliced ==
  pc = "walk" /\ Len(stack) > 1 /\ Len(stack') < Len(stack) =>
    LET caller == Caller(Len(stack))
        nestedResults == processBufferToResults(Top.textBuffer,
                                                Top.containerResults)
    IN /\ TopAfter.containerResults = caller.updatedResults \o nestedResults
       /\ TopAfter.textBuffer = <<>>
       /\ TopAfter.idx = caller.idx + 1

\* C15: the non-leaf handler appends the flush of the parent's buffer and
\* then, in order and contiguously, the whole block sequence of a nested
\* traversal that starts with an empty buffer and empty results, and it
\* returns an empty buffer; no block mixes text from outside and inside the
\* nested container, and the parent's buffer is neither seen nor changed by
\* the nested invocation.
C15_ContainerIsolation ==
  /\ []C15_Nested
  /\ [][C15_StartsEmpty]_vars
  /\ [][C15_CallersUntouched]_vars
  /\ [][C15_Spliced]_vars

\* "a. " then a visible <div>: the nested invocation has returned; the
\* parent's "a." stands ahead of the one block of the text inside the <div>
C15_Witness ==
  /\ pc = "walk"
  /\ Len(stack) = 1
  /\ Top.idx = 3
  /\ Top.childNodes[1].type = "text"
  /\ Top.childNodes[1].text = <<"a", ".", " ">>
  /\ Top.childNodes[2].tag = "DIV" /\ Top.childNodes[2].visible
  /\ Len(Top.containerResults) = 2
  /\ textContent(Top.containerResults[1]) = <<"a", ".">>
  /\ NoWhitespace(textContent(Top.containerResults[2]))
       = NoWhitespace(DocumentText(Top.childNodes[2].children))
  /\ Top.textBuffer = <<>>

----------------------------------------------------------------------------
(* C16 *)

C16_AtLineBreak ==
  HasChild /\ Child.type = "elem" /\ Child.visible /\ Child.tag = "BR"

\* C16: a visible <br> always flushes the buffer, complete sentence or
\* not, into <p> blocks and leaves the buffer empty; it adds no block of
\* its own and starts no nested invocation; and although a <br> has no
\* element children it is handled by the line-break handler, never as a
\* leaf.
C16_LineBreakFlushes ==
  /\ [][C16_AtLineBreak =>
          /\ Len(stack') = Len(stack)
          /\ TopAfter.idx = Top.idx + 1
          /\ TopAfter.textBuffer = <<>>
          /\ C14_Flushed(Appended(Top, TopAfter), Top.textBuffer)
          /\ SubSeq(TopAfter.containerResults, 1, Len(Top.containerResults))
               = Top.containerResults]_vars
  /\ [](C16_AtLineBreak =>
          /\ isLeafElement(Child)
          /\ getElementProcessor(Child) = "processLineBreak")

\* "\nb" then a <br>: the incomplete "b" was flushed into a block of its
\* own, nothing else was added and the buffer is empty
C16_Witness ==
  /\ pc = "walk"
  /\ Len(stack) = 1
  /\ Top.idx = 3
  /\ Top.childNodes[1].type = "text"
  /\ Top.childNodes[1].text = <<"\n", "b">>
  /\ Top.childNodes[2].tag = "BR" /\ Top.childNodes[2].visible
  /\ Len(Top.containerResults) = 1
  /\ IsTextBlock(Top.containerResults[1])
  /\ textContent(Top.containerResults[1]) = <<"b">>
  /\ Top.textBuffer = <<>>

----------------------------------------------------------------------------
(* C17 *)

\* the <p> blocks have text, and it neither starts nor ends with whitespace
C17_AllTrimmed(blocks) ==
  \A k \in 1..Len(blocks) :
    IsTextBlock(blocks[k]) =>
      LET t == textContent(blocks[k])
      IN /\ t # <<>>
         /\ ~IsWhitespace(t[1])
         /\ ~IsWhitespace(t[Len(t)])

\* C17: every <p> block in the results, at any moment and at return, has
\* non-empty text without leading or trailing whitespace; a blank buffer or
\* fragment gives no block, whichever of the three emission paths ran.
C17_BlocksTrimmed ==
  /\ \A s \in 1..Len(stack) :
       /\ C17_AllTrimmed(stack[s].containerResults)
       /\ C17_AllTrimmed(stack[s].updatedResults)
  /\ \A r \in 1..Len(runs) : C17_AllTrimmed(runs[r])

\* " " then " More text": the blank-padded buffer was flushed at return
\* into the one block "More text"
C17_Witness ==
  /\ pc = "returned"
  /\ Len(container) = 2
  /\ container[1].type = "text" /\ container[1].text = <<" ">>
  /\ container[2].type = "text" /\ container[2].text = MoreText
  /\ Len(runs[1]) = 1
  /\ IsTextBlock(runs[1][1])
  /\ textContent(runs[1][1])
       = <<"M", "o", "r", "e", " ", "t", "e", "x", "t">>

----------------------------------------------------------------------------
(* C18 *)

\* the child nodes with the invisible elements among them removed
WithoutInvisible(childNodes) ==
  SelectSeq(childNodes, LAMBDA n : ~(n.type = "elem" /\ ~isVisible(n)))

\* processContainer is called on the same container with its invisible
\* element children removed
InvokeWithoutInvisible ==
  /\ pc = "returned"
  /\ Len(runs) < 2
  /\ stack' = <<NewFrame(WithoutInvisible(container))>>
  /\ pc' = "walk"
  /\ UNCHANGED <<container, runs, splitVars, lineCall, playVars>>

NextWithoutInvisible == Next \/ InvokeWithoutInvisible

\* the traversal of a container, then of the same container with its
\* invisible element children removed
SpecWithoutInvisible == Init /\ [][NextWithoutInvisible]_vars

\* C18: an invisible element contributes nothing: processContainer returns
\* for a container the same block sequence as for that container with its
\* invisible element children removed.
C18_InvisibleRemovable ==
  pc = "returned" /\ Len(runs) = 2 => runs[2] = runs[1]

----------------------------------------------------------------------------
(* C19 *)

\* the child has a next sibling, and it is of the given node type
C19_NextIs(type) ==
  /\ Top.idx < Len(Top.childNodes)
  /\ Top.childNodes[Top.idx + 1].type = type

\* C19: for a leaf element the lookahead returns the content of the
\* immediately next sibling when that is a text node, and the empty string
\* when that is an element, visible or not, or when there is none; it never
\* reaches past an element sibling, so a leaf followed by an element is
\* embedded exactly when the trimmed buffer is not empty.
C19_LookaheadStopsAtElement ==
  /\ [](C4_AtLeaf =>
          /\ C19_NextIs("text") =>
               C4_Following = Top.childNodes[Top.idx + 1].text
          /\ C19_NextIs("elem") => C4_Following = <<>>
          /\ Top.idx = Len(Top.childNodes) => C4_Following = <<>>)
  /\ [][C4_AtLeaf /\ C19_NextIs("elem") =>
          /\ trim(Top.textBuffer) # <<>> => C4_Embedded(Top, TopAfter, Child)
          /\ trim(Top.textBuffer) = <<>> =>
               C4_Standalone(Top, TopAfter, Child)]_vars

\* a link, an invisible element, then ". Next": the lookahead stopped at
\* the invisible element, and the link, the buffer being empty, is standalone
C19_Witness ==
  /\ pc = "walk"
  /\ Len(stack) = 1
  /\ Top.idx = 2
  /\ Len(Top.childNodes) = 3
  /\ Top.childNodes[1].tag = "A"
  /\ Top.childNodes[2].type = "elem" /\ ~Top.childNodes[2].visible
  /\ Top.childNodes[3].type = "text" /\ Top.childNodes[3].text = DotNext
  /\ getFollowingText(Top.childNodes, 1) = <<>>
  /\ Len(Top.containerResults) = 1
  /\ Top.containerResults[1].id = <<1>>
  /\ Top.textBuffer = <<>>

----------------------------------------------------------------------------
(* State machine of playTextualContent and displayElement *)

MaxElements == 3   \* most elements handed to playTextualContent

\* the elements played: a sentence block, the clone of a link, the clone of
\* an image (no text), and an element whose text is one space
PlayElements ==
  {Paragraph(<<"a", ".">>), NormalizedClone(Link), NormalizedClone(Image),
   Element("SPAN", TRUE, <<TextNode(<<" ">>)>>)}

\* the filter that keeps every element
HasText_Always(el) == TRUE

\* el.textContent && el.textContent.trim().length > 0
HasText(el) == textContent(el) # <<>> /\ Len(trim(textContent(el))) > 0

\* a timeout that is set: the callback it runs and, for the two timeouts of
\* displayElement, the index of the element the call was made for
Timeout(callback, index) == [callback |-> callback, index |-> index]

\* the three strategies, from the canvas children to the canvas children;
\* styles are left out
displayParagraph(children, element) == <<TextNode(textContent(element))>>
displayLink(children, element) == Append(children, cloneNode(element))
displayGenericElement(children, element) == Append(children, cloneNode(element))

getDisplayStrategy(element) ==
  IF element.tag = "P" THEN "displayParagraph"
  ELSE IF element.tag = "A" THEN "displayLink"
  ELSE "displayGenericElement"

\* displayStrategy(canvas, element)
ApplyStrategy(children, element) ==
  CASE getDisplayStrategy(element) = "displayParagraph" ->
         displayParagraph(children, element)
    [] getDisplayStrategy(element) = "displayLink" ->
         displayLink(children, element)
    [] OTHER -> displayGenericElement(children, element)

\* the <div> of the closing message
TheEnd ==
  Element("DIV", TRUE, <<TextNode(<<"T", "h", "e", " ", "E", "n", "d">>)>>)

InitPlay ==
  /\ pc = "play"
  /\ elements \in SeqsUpTo(PlayElements, MaxElements)
  /\ textElements = <<>>
  /\ elementIndex = 0
  /\ canvas = [children |-> <<>>, opacity |-> 0]
  /\ timers = {}
  /\ timeouts = <<>>
  /\ shown = <<>>
  /\ LineIdle
  /\ text = <<>>
  /\ i = 0
  /\ current = <<>>
  /\ sentences = <<>>
  /\ container = <<>>
  /\ stack = <<>>
  /\ runs = <<>>

\* playTextualContent up to its first await: the canvas is created, the
\* elements are filtered and the 500 ms timeout is set
PlayStart ==
  /\ pc = "play"
  /\ canvas' = [children |-> <<>>, opacity |-> 0]
  /\ timeouts' = <<>>
  /\ textElements' = SelectSeq(elements, HasText)
  /\ timers' = {Timeout("start", 0)}
  /\ pc' = "waiting"
  /\ UNCHANGED <<elements, elementIndex, shown, walkVars, splitVars, lineCall>>

\* the head of the for loop with i = index: displayElement is called and
\* sets its fade-out timeout, or the loop is over and the end timeout is set
LoopHead(index, pending) ==
  /\ elementIndex' = index
  /\ canvas' = [canvas EXCEPT !.opacity = 0]
  /\ IF index < Len(textElements)
     THEN /\ timers' = pending \cup {Timeout("fadeOutTimeout", index)}
          /\ pc' = "displaying"
     ELSE /\ timers' = pending \cup {Timeout("endTimeout", index)}
          /\ pc' = "ending"

\* the 500 ms timeout fires and the function goes on into the loop
StartTimeout ==
  /\ pc = "waiting"
  /\ Timeout("start", 0) \in timers
  /\ LoopHead(0, timers \ {Timeout("start", 0)})
  /\ UNCHANGED <<elements, textElements, timeouts, shown, walkVars,
                 splitVars, lineCall>>

\* the fade-out timeout of displayElement fires: the canvas is cleared, the
\* element is rendered and faded in, and the display timeout is set
FadeOutTimeout ==
  \E t \in timers :
    /\ t.callback = "fadeOutTimeout"
    /\ LET element == textElements[t.index + 1]
       IN /\ canvas' = [children |-> ApplyStrategy(<<>>, element),
                        opacity |-> 1]
          /\ shown' = Append(shown, element)
    /\ timers' = (timers \ {t}) \cup {Timeout("displayTimeout", t.index)}
    /\ UNCHANGED <<pc, elements, textElements, elementIndex, timeouts,
                   walkVars, splitVars, lineCall>>

\* the display timeout fires: the promise resolves, the two timeout ids are
\* pushed, and the loop goes on with the next index
DisplayTimeout ==
  \E t \in timers :
    /\ t.callback = "displayTimeout"
    /\ pc = "displaying"
    /\ timeouts' = timeouts \o <<Timeout("fadeOutTimeout", t.index), t>>
    /\ LoopHead(elementIndex + 1, timers \ {t})
    /\ UNCHANGED <<elements, textElements, shown, walkVars, splitVars,
                   lineCall>>

\* the end timeout fires: the closing message replaces the canvas content
\* and the collected timeouts are cleared
EndTimeout ==
  \E t \in timers :
    /\ t.callback = "endTimeout"
    /\ canvas' = [children |-> <<TheEnd>>, opacity |-> 1]
    /\ timers' = {u \in timers \ {t} :
                    \A k \in 1..Len(timeouts) : timeouts[k] # u}
    /\ pc' = "ended"
    /\ UNCHANGED <<elements, textElements, elementIndex, timeouts, shown,
                   walkVars, splitVars, lineCall>>

NextPlay ==
  \/ PlayStart
  \/ StartTimeout
  \/ FadeOutTimeout
  \/ DisplayTimeout
  \/ EndTimeout

\* a timeout that is set fires, and the synchronous start runs
SpecPlay == InitPlay /\ [][NextPlay]_vars /\ WF_vars(NextPlay)

----------------------------------------------------------------------------
(* C20 *)

\* the elements that are to be rendered: those whose trimmed text is not
\* empty, in input order
C20_Expected == SelectSeq(elements, LAMBDA el : trim(textContent(el)) # <<>>)

\* the timeout was collected after it fired
C20_Fired(t) == \E k \in 1..Len(timeouts) : timeouts[k] = t

\* the closing message is on the canvas
C20_TheEndShown == canvas.children = <<TheEnd>>

\* what has been rendered so far is the front of the expected elements; the
\* canvas holds at most one element, and it is the one rendered last; the
\* closing message is shown only when every expected element was rendered
\* and its display timeout has fired
C20_Safe ==
  /\ Len(shown) <= Len(C20_Expected)
  /\ shown = SubSeq(C20_Expected, 1, Len(shown))
  /\ Len(canvas.children) <= 1
  /\ Cardinality(timers) <= 1
  /\ pc = "ended" => C20_TheEndShown
  /\ C20_TheEndShown =>
       /\ shown = C20_Expected
       /\ \A k \in 0..(Len(shown) - 1) :
            C20_Fired(Timeout("displayTimeout", k))
       /\ timers = {}

\* an element is rendered: it is the next expected one, it is alone on the
\* canvas, and the display timeout of every element rendered before it has
\* fired
C20_Render ==
  shown' # shown =>
    /\ Len(shown') = Len(shown) + 1
    /\ shown'[Len(shown')] = C20_Expected[Len(shown')]
    /\ canvas'.children
         = IF shown'[Len(shown')].tag = "P"
           THEN <<TextNode(textContent(shown'[Len(shown')]))>>
           ELSE <<shown'[Len(shown')]>>
    /\ \A k \in 0..(Len(shown) - 1) :
         /\ C20_Fired(Timeout("displayTimeout", k))
         /\ Timeout("displayTimeout", k) \notin timers

\* C20: playback renders exactly the elements with non-empty trimmed text,
\* each once and in input order; an element is not rendered before the
\* display timeout of the one before it has fired; the canvas never holds
\* more than one element; "The End" is rendered only after the last
\* element's display completed, and it is rendered eventually for every
\* input sequence, the empty one included.
C20_SequentialPlayback ==
  /\ []C20_Safe
  /\ [][C20_Render]_vars
  /\ (pc = "play") ~> C20_TheEndShown

\* a block, an image without text and a link were played: the block and
\* the link were rendered, in that order, and the closing message is shown
C20_Witness ==
  /\ pc = "ended"
  /\ Len(elements) = 3
  /\ elements[1].tag = "P" /\ elements[2].tag = "IMG" /\ elements[3].tag = "A"
  /\ shown = <<elements[1], elements[3]>>
  /\ C20_TheEndShown

====
